---------------------------- MODULE Spec2Model ----------------------------
(***************************************************************************)
(* A model of the evaluation core of json-logic-plus: the Identifier       *)
(* constructors (src/func.rs, src/op/func.rs), the arithmetic operators    *)
(* (src/op/arithmetic.rs), the equality operators (src/op/equality.rs) and *)
(* the parsing of function definitions (src/op/func.rs).                   *)
(*                                                                         *)
(* The operators of the library are pure functions.  Each one is an        *)
(* operator of this module, computed the way its code computes it, and an  *)
(* action that applies it to the inputs Init has drawn and records what it *)
(* returned.                                                               *)
(*                                                                         *)
(* Representation.  A Rust String is a sequence of characters, each        *)
(* character a token with a UTF-8 byte length and a whitespace flag.  A    *)
(* serde_json::Value is a record tagged by t.  Result and Option values    *)
(* are records tagged by ok and some.                                      *)
(*                                                                         *)
(* Widths.  TLC's integers have 32 bits, so u64, i64 and f64 are modelled  *)
(* at a reduced width: integers have IntBits bits (u64 is                  *)
(* 0 .. 2^IntBits - 1, i64 is -2^(IntBits-1) .. 2^(IntBits-1) - 1) and a   *)
(* float has MantBits significant bits, MantBits < IntBits - 1 as          *)
(* 53 < 63, with round-to-nearest, ties-to-even, and an exponent range     *)
(* that leaves the largest float far above every integer.                  *)
(***************************************************************************)
EXTENDS Integers, Sequences, FiniteSets, TLC

VARIABLES
    ident,      \* the String handed to Identifier::new
    identOut,   \* what each Identifier::new returned for it
    items,      \* the argument list handed to an operator (add, equal, lt, ...)
    out,        \* what each operator returned for items
    value,      \* the JSON value handed to Function::from_value
    parsed,     \* what Function::from_value returned for value
    firstParse, \* the Function of the first parse, kept across a round trip
    pc          \* the position in the parse / serialize / re-parse sequence

vars == <<ident, identOut, items, out, value, parsed, firstParse, pc>>

(***************************************************************************)
(* Bounds of the model.                                                    *)
(***************************************************************************)
\* The longest String, in characters, handed to Identifier::new.
MaxStrLen == 3

\* The most elements of an array and the most members of an object text
\* handed to equal and not_equal.
MaxItems == 2

\* The most parameters of a function definition handed to from_value.
MaxParams == 2

(***************************************************************************)
(* Option and Result.                                                      *)
(***************************************************************************)
None == [some |-> FALSE]

Some(x) == [some |-> TRUE, v |-> x]

Ok(x) == [ok |-> TRUE, v |-> x]

Err(e) == [ok |-> FALSE, err |-> e]

\* An operation that has not been called yet.
NotCalled == [called |-> FALSE]

Returned(r) == [called |-> TRUE, ret |-> r]

\* A call that panicked: it was made and returned nothing.
Panicked(message) == [called |-> TRUE, panic |-> message]

(***************************************************************************)
(* Strings: sequences of characters.  A character is a token; e_acute is   *)
(* U+00E9 (two bytes in UTF-8, not whitespace) and ideographic_space is    *)
(* U+3000 (three bytes, whitespace).                                       *)
(***************************************************************************)
\* char::len_utf8
len_utf8(c) ==
    CASE c = "e_acute" -> 2
      [] c = "ideographic_space" -> 3
      [] OTHER -> 1

\* char::is_whitespace
is_whitespace(c) == c \in {" ", "\t", "\n", "ideographic_space"}

RECURSIVE StringLen(_)
\* String::len: the length in bytes, not in characters.
StringLen(s) ==
    IF s = <<>> THEN 0 ELSE len_utf8(Head(s)) + StringLen(Tail(s))

\* The position of the first whitespace character of s, 0 when there is none:
\* where value.chars().try_for_each(..) stops.
FirstWhitespace(s) ==
    IF \E i \in 1..Len(s) : is_whitespace(s[i])
    THEN CHOOSE i \in 1..Len(s) :
            /\ is_whitespace(s[i])
            /\ \A j \in 1..(i - 1) : ~is_whitespace(s[j])
    ELSE 0

(***************************************************************************)
(* Errors (src/error.rs).                                                  *)
(***************************************************************************)
\* A reason: a format string and the values put in its places.
Format(fmt, args) == [fmt |-> fmt, args |-> args]

Reason(text) == Format(text, <<>>)

InvalidIdentifier(s) == [kind |-> "InvalidIdentifier", value |-> s]

InvalidArgument(v, operation, reason) ==
    [kind |-> "InvalidArgument", value |-> v, operation |-> operation,
     reason |-> reason]

WrongArgumentCount(expected, actual) ==
    [kind |-> "WrongArgumentCount", expected |-> expected, actual |-> actual]

OverflowBinaryOp(operation, a, b) ==
    [kind |-> "OverflowBinaryOp", operation |-> operation, a |-> a, b |-> b]

(***************************************************************************)
(* Identifier::new, in its two variants.                                   *)
(***************************************************************************)
\* A variant that looks for whitespace in the first character only.
FuncIdentifierNewFirstCharOnly(s) ==
    IF StringLen(s) < 2 THEN Err(InvalidIdentifier(s))
    ELSE IF is_whitespace(s[1]) THEN Err(InvalidIdentifier(s))
    ELSE Ok([value |-> s])

\* src/func.rs: Identifier::new
FuncIdentifierNew(s) ==
    IF StringLen(s) < 2 THEN Err(InvalidIdentifier(s))
    ELSE IF FirstWhitespace(s) # 0 THEN Err(InvalidIdentifier(s))
    ELSE Ok([value |-> s])

\* src/op/func.rs: Identifier::new
IdentifierNew(s) ==
    IF StringLen(s) < 1 THEN Err(InvalidIdentifier(s))
    ELSE IF FirstWhitespace(s) # 0 THEN Err(InvalidIdentifier(s))
    ELSE Ok([value |-> s])


(***************************************************************************)
(* Machine numbers at the model's widths.                                  *)
(***************************************************************************)
\* The number of bits of u64 and i64 in the model.
IntBits == 6

\* The number of significant bits of f64 in the model.
MantBits == 3

RECURSIVE Pow2(_)
Pow2(n) == IF n <= 0 THEN 1 ELSE 2 * Pow2(n - 1)

\* std::u64::MAX
U64Max == Pow2(IntBits) - 1

\* std::i64::MAX
I64Max == Pow2(IntBits - 1) - 1

\* std::i64::MIN
I64Min == 0 - Pow2(IntBits - 1)

\* std::f64::MAX: the largest finite float.  Its last bit weighs more than
\* twice any integer, so adding an integer to a float never overflows.
F64Max == (Pow2(MantBits) - 1) * Pow2(IntBits + 2)

Abs(x) == IF x < 0 THEN 0 - x ELSE x

RECURSIVE BitLen(_)
\* The number of bits of a natural number: 0 for 0, 1 for 1, 2 for 2 and 3.
BitLen(a) == IF a = 0 THEN 0 ELSE 1 + BitLen(a \div 2)

\* An f64: a finite value, or an infinity (v is its sign).
Finite(x) == [fin |-> TRUE, v |-> x]

Infinity(sign) == [fin |-> FALSE, v |-> sign]

\* f64::is_finite
is_finite(f) == f.fin

\* The f64 nearest to the real number x (an integer here): round to MantBits
\* significant bits, ties to even; past F64Max the result is an infinity.
RoundF64(x) ==
    LET a == Abs(x)
        sign == IF x < 0 THEN 0 - 1 ELSE 1
        e == BitLen(a) - MantBits
    IN  IF e <= 0 THEN Finite(x)
        ELSE LET q == a \div Pow2(e)
                 r == a % Pow2(e)
                 half == Pow2(e - 1)
                 up == IF r > half \/ (r = half /\ q % 2 = 1) THEN 1 ELSE 0
                 m == (q + up) * Pow2(e)
             IN  IF m > F64Max THEN Infinity(sign) ELSE Finite(sign * m)

\* `x as f64` of an integer
AsF64(x) == RoundF64(x)

\* f64 + f64, both finite
F64Add(a, b) == RoundF64(a.v + b.v)

\* f64 - f64, both finite
F64Sub(a, b) == RoundF64(a.v - b.v)

\* `x as i64` of a u64: the same bits
U64AsI64(x) == IF x > I64Max THEN x - Pow2(IntBits) ELSE x

\* `x as u64` of an i64: the same bits
I64AsU64(x) == IF x < 0 THEN x + Pow2(IntBits) ELSE x

\* u64::checked_add
U64CheckedAdd(a, b) == IF a + b > U64Max THEN None ELSE Some(a + b)

\* u64::checked_sub
U64CheckedSub(a, b) == IF a - b < 0 THEN None ELSE Some(a - b)

\* i64::checked_abs
I64CheckedAbs(a) == IF a = I64Min THEN None ELSE Some(Abs(a))

\* i64::checked_add
I64CheckedAdd(a, b) ==
    IF a + b > I64Max \/ a + b < I64Min THEN None ELSE Some(a + b)

\* i64::checked_sub
I64CheckedSub(a, b) ==
    IF a - b > I64Max \/ a - b < I64Min THEN None ELSE Some(a - b)

\* Option::or
OptOr(a, b) == IF a.some THEN a ELSE b

(***************************************************************************)
(* serde_json::Number: PosInt(u64), NegInt(i64) (always negative) or       *)
(* Float(f64) (always finite).                                             *)
(***************************************************************************)
PosInt(x) == [kind |-> "PosInt", n |-> x]

NegInt(x) == [kind |-> "NegInt", n |-> x]

Float(x) == [kind |-> "Float", n |-> x]

\* Number::from(u64)
NumberFromU64(x) == PosInt(x)

\* Number::from(i64)
NumberFromI64(x) == IF x < 0 THEN NegInt(x) ELSE PosInt(x)

\* A from_f64 that does not look at is_finite.
NumberFromF64Unchecked(f) == Some(Float(f.v))

\* Number::from_f64: None for an infinity or a NaN
NumberFromF64(f) == IF is_finite(f) THEN Some(Float(f.v)) ELSE None

\* Number::as_u64
as_u64(n) == IF n.kind = "PosInt" THEN Some(n.n) ELSE None

\* Number::as_i64
as_i64(n) ==
    CASE n.kind = "PosInt" -> IF n.n <= I64Max THEN Some(n.n) ELSE None
      [] n.kind = "NegInt" -> Some(n.n)
      [] OTHER -> None

\* Number::as_f64
as_f64(n) == IF n.kind = "Float" THEN Some(Finite(n.n)) ELSE Some(AsF64(n.n))

RECURSIVE Digits(_)
\* The decimal digits of a natural number.
Digits(a) ==
    LET d == <<"0", "1", "2", "3", "4", "5", "6", "7", "8", "9">>
    IN  IF a < 10 THEN <<d[a + 1]>>
        ELSE Digits(a \div 10) \o <<d[(a % 10) + 1]>>

\* Display for Number (format!("{}", n)): the digits of an integer, with its
\* sign; a float that is a whole number ends in ".0".
NumberDisplay(n) ==
    LET body == IF n.n < 0 THEN <<"-">> \o Digits(Abs(n.n)) ELSE Digits(n.n)
    IN  IF n.kind = "Float" THEN body \o <<".", "0">> ELSE body

(***************************************************************************)
(* src/op/arithmetic.rs: JsonNumber and CheckedAdd for Number.             *)
(***************************************************************************)
U64(x) == [t |-> "U64", v |-> x]

I64(x) == [t |-> "I64", v |-> x]

F64(x) == [t |-> "F64", v |-> x]

\* Option::map over a JsonNumber constructor
MapJson(o, t) == IF o.some THEN Some([t |-> t, v |-> o.v]) ELSE None

\* JsonNumber::from_number
from_number(n) ==
    OptOr(MapJson(as_u64(n), "U64"),
          OptOr(MapJson(as_i64(n), "I64"), MapJson(as_f64(n), "F64")))

\* Option::map(Number::from) on a checked u64 result
MapFromU64(o) == IF o.some THEN Some(NumberFromU64(o.v)) ELSE None

\* Option::map(Number::from) on a checked i64 result
MapFromI64(o) == IF o.some THEN Some(NumberFromI64(o.v)) ELSE None

\* The (U64, U64) arm.
AddU64U64(a, b) ==
    OptOr(MapFromU64(U64CheckedAdd(a, b)),
          NumberFromF64(F64Add(AsF64(a), AsF64(b))))

\* The (U64, I64) arm.
AddU64I64(a, b) ==
    IF b < 0
    THEN LET abs == I64CheckedAbs(b)
             sub == IF abs.some
                    THEN LET second == abs.v
                         IN  OptOr(MapFromU64(U64CheckedSub(a, second)),
                                   MapFromI64(I64CheckedSub(U64AsI64(a),
                                                            U64AsI64(second))))
                    ELSE None
         IN  OptOr(sub, NumberFromF64(F64Sub(AsF64(a), AsF64(b))))
    ELSE OptOr(MapFromU64(U64CheckedAdd(a, I64AsU64(b))),
               NumberFromF64(F64Add(AsF64(a), AsF64(b))))

\* The (I64, I64) arm.
AddI64I64(a, b) ==
    IF b < 0
    THEN LET abs == I64CheckedAbs(b)
             sub == IF abs.some THEN I64CheckedSub(a, abs.v) ELSE None
         IN  OptOr(MapFromI64(sub), NumberFromF64(F64Sub(AsF64(a), AsF64(b))))
    ELSE OptOr(MapFromI64(I64CheckedAdd(a, b)),
               NumberFromF64(F64Add(AsF64(a), AsF64(b))))

\* The last arm: one of the two is a float.
AddAsF64(self, v) ==
    LET a == as_f64(self)
        b == as_f64(v)
    IN  IF a.some /\ b.some THEN NumberFromF64(F64Add(a.v, b.v)) ELSE None

RECURSIVE checked_add(_, _)
\* CheckedAdd for Number: checked_add.  The (I64, U64) arm calls it again
\* with the arguments flipped.
checked_add(self, v) ==
    LET a == from_number(self)
        b == from_number(v)
    IN  IF ~a.some \/ ~b.some THEN None
        ELSE CASE a.v.t = "U64" /\ b.v.t = "U64" -> AddU64U64(a.v.v, b.v.v)
               [] a.v.t = "U64" /\ b.v.t = "I64" -> AddU64I64(a.v.v, b.v.v)
               [] a.v.t = "I64" /\ b.v.t = "I64" -> AddI64I64(a.v.v, b.v.v)
               [] a.v.t = "I64" /\ b.v.t = "U64" ->
                    checked_add(NumberFromU64(b.v.v), NumberFromI64(a.v.v))
               [] OTHER -> AddAsF64(self, v)

(***************************************************************************)
(* serde_json::Value.  An object is a Map<String, Value>: its entries, one *)
(* per key, in the order of their insertion.                               *)
(***************************************************************************)
Null == [t |-> "Null"]

Bool(b) == [t |-> "Bool", b |-> b]

Number(n) == [t |-> "Number", n |-> n]

String(s) == [t |-> "String", s |-> s]

Array(a) == [t |-> "Array", a |-> a]

Object(o) == [t |-> "Object", o |-> o]

\* Value::Number of a checked_add result: Option::map(Value::Number)
MapNumber(o) == IF o.some THEN Some(Number(o.v)) ELSE None

\* Option::ok_or
ok_or(o, e) == IF o.some THEN Ok(o.v) ELSE Err(e)

(***************************************************************************)
(* src/op/arithmetic.rs: add.                                              *)
(***************************************************************************)
\* An add whose last arm names the second argument instead of the first.
addNamesSecond(its) ==
    LET a == its[1]
        b == its[2]
    IN  IF a.t = "Number" /\ b.t = "Number"
        THEN ok_or(MapNumber(checked_add(a.n, b.n)),
                   OverflowBinaryOp("add", NumberDisplay(a.n), NumberDisplay(b.n)))
        ELSE Err(InvalidArgument(b, "add", Reason("arguments to add must be numbers")))

\* add
add(its) ==
    LET a == its[1]
        b == its[2]
    IN  IF a.t = "Number" /\ b.t = "Number"
        THEN ok_or(MapNumber(checked_add(a.n, b.n)),
                   OverflowBinaryOp("add", NumberDisplay(a.n), NumberDisplay(b.n)))
        ELSE IF a.t = "Number"
        THEN Err(InvalidArgument(b, "add", Reason("arguments to add must be numbers")))
        ELSE Err(InvalidArgument(a, "add", Reason("arguments to add must be numbers")))

(***************************************************************************)
(* Map<String, Value> and the equality of values.  Two maps are equal when *)
(* they have as many entries and every key of the one has an equal value   *)
(* in the other: the order of insertion takes no part.                     *)
(***************************************************************************)
\* Map::new
MapNew == <<>>

\* Map::get
MapGet(m, k) ==
    IF \E i \in 1..Len(m) : m[i].k = k
    THEN Some(m[CHOOSE i \in 1..Len(m) : m[i].k = k].v)
    ELSE None

\* Map::insert: a key the map holds keeps its place and takes the new value.
MapInsert(m, k, v) ==
    IF \E i \in 1..Len(m) : m[i].k = k
    THEN [i \in 1..Len(m) |-> IF m[i].k = k THEN [k |-> k, v |-> v] ELSE m[i]]
    ELSE Append(m, [k |-> k, v |-> v])

\* Map::len
MapLen(m) == Len(m)

RECURSIVE MapOf(_)
\* The map a JSON object text builds: its members inserted in their order.
MapOf(members) ==
    IF members = <<>> THEN MapNew
    ELSE LET n == Len(members)
         IN  MapInsert(MapOf(SubSeq(members, 1, n - 1)), members[n].k, members[n].v)

\* PartialEq for Number: the same representation and the same value.
NumberEq(a, b) == a.kind = b.kind /\ a.n = b.n

RECURSIVE ValueEq(_, _)
\* An equality of maps that compares the entries position by position.
MapEqInOrder(x, y) ==
    /\ MapLen(x) = MapLen(y)
    /\ \A i \in 1..Len(x) : x[i].k = y[i].k /\ ValueEq(x[i].v, y[i].v)

\* PartialEq for Map<String, Value>
MapEq(x, y) ==
    /\ MapLen(x) = MapLen(y)
    /\ \A i \in 1..Len(x) :
          LET other == MapGet(y, x[i].k)
          IN  other.some /\ ValueEq(x[i].v, other.v)

\* PartialEq for Value: eq
ValueEq(a, b) ==
    /\ a.t = b.t
    /\ CASE a.t = "Null" -> TRUE
         [] a.t = "Bool" -> a.b = b.b
         [] a.t = "Number" -> NumberEq(a.n, b.n)
         [] a.t = "String" -> a.s = b.s
         [] a.t = "Array" ->
              /\ Len(a.a) = Len(b.a)
              /\ \A i \in 1..Len(a.a) : ValueEq(a.a[i], b.a[i])
         [] a.t = "Object" -> MapEq(a.o, b.o)

\* A ne that looks at the variants only.
ValueNeVariantOnly(a, b) == a.t # b.t

\* PartialEq for Value: ne.  Values of two variants differ; values of one
\* variant differ when what they hold differs.
ValueNe(a, b) ==
    \/ a.t # b.t
    \/ CASE a.t = "Null" -> FALSE
         [] a.t = "Bool" -> a.b # b.b
         [] a.t = "Number" -> ~NumberEq(a.n, b.n)
         [] a.t = "String" -> a.s # b.s
         [] a.t = "Array" ->
              \/ Len(a.a) # Len(b.a)
              \/ \E i \in 1..Len(a.a) : ~ValueEq(a.a[i], b.a[i])
         [] a.t = "Object" -> ~MapEq(a.o, b.o)

(***************************************************************************)
(* src/op/equality.rs: equal and not_equal.                                *)
(***************************************************************************)
\* equal
equal(its) == Ok(Bool(ValueEq(its[1], its[2])))

\* not_equal
not_equal(its) == Ok(Bool(ValueNe(its[1], its[2])))

(***************************************************************************)
(* js_op: the two-value comparison primitives, with the loose rules of     *)
(* JavaScript: two strings compare character by character, anything else   *)
(* is turned into a number first (null is 0, true is 1, false is 0, a      *)
(* string of digits is its number, an empty string is 0, any other string  *)
(* is NaN), and a comparison with NaN is false.                            *)
(***************************************************************************)
\* The order of the characters.
CharCode(c) ==
    CASE c = "0" -> 48 [] c = "1" -> 49 [] c = "2" -> 50 [] c = "3" -> 51
      [] c = "a" -> 97 [] c = "b" -> 98 [] OTHER -> 0

IsDigit(c) == c \in {"0", "1", "2", "3", "4", "5", "6", "7", "8", "9"}

RECURSIVE ParseDigits(_)
ParseDigits(s) ==
    IF s = <<>> THEN 0
    ELSE 10 * ParseDigits(SubSeq(s, 1, Len(s) - 1)) + (CharCode(s[Len(s)]) - 48)

\* The number a value is turned into; None is NaN.
to_number(v) ==
    CASE v.t = "Null" -> Some(0)
      [] v.t = "Bool" -> Some(IF v.b THEN 1 ELSE 0)
      [] v.t = "Number" -> Some(v.n.n)
      [] v.t = "String" ->
            IF \A i \in 1..Len(v.s) : IsDigit(v.s[i])
            THEN Some(ParseDigits(v.s)) ELSE None
      [] OTHER -> None

RECURSIVE StringLt(_, _)
\* s < t, character by character; a proper prefix is smaller.
StringLt(s, t) ==
    IF t = <<>> THEN FALSE
    ELSE IF s = <<>> THEN TRUE
    ELSE IF CharCode(Head(s)) # CharCode(Head(t))
    THEN CharCode(Head(s)) < CharCode(Head(t))
    ELSE StringLt(Tail(s), Tail(t))

\* js_op::abstract_lt
abstract_lt(a, b) ==
    IF a.t = "String" /\ b.t = "String" THEN StringLt(a.s, b.s)
    ELSE LET x == to_number(a)
             y == to_number(b)
         IN  x.some /\ y.some /\ x.v < y.v

\* js_op::abstract_gt
abstract_gt(a, b) == abstract_lt(b, a)

\* js_op::abstract_lte
abstract_lte(a, b) ==
    IF a.t = "String" /\ b.t = "String" THEN ~StringLt(b.s, a.s)
    ELSE LET x == to_number(a)
             y == to_number(b)
         IN  x.some /\ y.some /\ x.v <= y.v

\* js_op::abstract_gte
abstract_gte(a, b) == abstract_lte(b, a)

(***************************************************************************)
(* src/op/arithmetic.rs: compare, lt, lte, gt, gte.                        *)
(***************************************************************************)
\* func(a, b) for F: Fn(&Value, &Value) -> bool, a primitive given by name.
Call(func, a, b) ==
    CASE func = "abstract_lt" -> abstract_lt(a, b)
      [] func = "abstract_lte" -> abstract_lte(a, b)
      [] func = "abstract_gt" -> abstract_gt(a, b)
      [] func = "abstract_gte" -> abstract_gte(a, b)

\* A compare whose second comparison is of the first and the last operand.
compareFirstWithLast(func, its) ==
    IF Len(its) = 2
    THEN Ok(Bool(Call(func, its[1], its[2])))
    ELSE Ok(Bool(Call(func, its[1], its[2]) /\ Call(func, its[1], its[3])))

\* compare
compare(func, its) ==
    IF Len(its) = 2
    THEN Ok(Bool(Call(func, its[1], its[2])))
    ELSE Ok(Bool(Call(func, its[1], its[2]) /\ Call(func, its[2], its[3])))

\* lt
lt(its) == compare("abstract_lt", its)

\* lte
lte(its) == compare("abstract_lte", its)

\* gt
gt(its) == compare("abstract_gt", its)

\* gte
gte(its) == compare("abstract_gte", its)

(***************************************************************************)
(* Display for Value (value.to_string(), format!("{}", value)): the JSON   *)
(* text of the value, without spaces.                                      *)
(***************************************************************************)
\* A character inside a JSON string: the control characters are escaped.
Escaped(c) ==
    CASE c = "\n" -> <<"\\", "n">>
      [] c = "\t" -> <<"\\", "t">>
      [] OTHER -> <<c>>

RECURSIVE EscapedString(_)
EscapedString(s) ==
    IF s = <<>> THEN <<>> ELSE Escaped(Head(s)) \o EscapedString(Tail(s))

\* A string between its quotes.
Quoted(s) == <<"\"">> \o EscapedString(s) \o <<"\"">>

RECURSIVE ValueToString(_)
RECURSIVE JoinValues(_)
RECURSIVE JoinMembers(_)
\* The elements of an array, with commas between them.
JoinValues(a) ==
    IF a = <<>> THEN <<>>
    ELSE IF Len(a) = 1 THEN ValueToString(a[1])
    ELSE ValueToString(a[1]) \o <<",">> \o JoinValues(Tail(a))

\* The members of an object, with commas between them.
JoinMembers(o) ==
    IF o = <<>> THEN <<>>
    ELSE LET head == Quoted(o[1].k) \o <<":">> \o ValueToString(o[1].v)
         IN  IF Len(o) = 1 THEN head ELSE head \o <<",">> \o JoinMembers(Tail(o))

\* Display for Value
ValueToString(v) ==
    CASE v.t = "Null" -> <<"n", "u", "l", "l">>
      [] v.t = "Bool" ->
            IF v.b THEN <<"t", "r", "u", "e">> ELSE <<"f", "a", "l", "s", "e">>
      [] v.t = "Number" -> NumberDisplay(v.n)
      [] v.t = "String" -> Quoted(v.s)
      [] v.t = "Array" -> <<"[">> \o JoinValues(v.a) \o <<"]">>
      [] v.t = "Object" -> <<"{">> \o JoinMembers(v.o) \o <<"}">>

\* Display for Error (e.to_string()), for the one error from_value displays.
ErrorToString(e) ==
    Format("Invalid identifier '{0}': identifiers must be valid utf-8 of 2 or more characters, containing no whitespace",
           <<e.value>>)

(***************************************************************************)
(* src/op/func.rs: Function and its parsing.                               *)
(***************************************************************************)
\* Function::OPERATOR
OPERATOR == <<"d", "e", "f", "n">>

\* NumParams::Exactly
Exactly(n) == [kind |-> "Exactly", n |-> n]

\* Function::new
FunctionNew(name, params, expression, num_params) ==
    [name |-> name, params |-> params, expression |-> expression,
     num_params |-> num_params]

\* A param_info that gives the arity of "defn" itself, not of the function
\* it defines.
param_infoOfDefn(func) == Exactly(3)

\* CommonOperator for Function: param_info
param_info(func) == func.num_params

\* TryFrom<&Value> for Identifier
IdentifierTryFrom(v) ==
    IF v.t = "String" THEN IdentifierNew(v.s)
    ELSE Err(InvalidIdentifier(ValueToString(v)))

\* From<&Identifier> for Value
IdentifierIntoValue(id) == String(id.value)

\* A get_in_params that does not count the keys of the object.
get_in_paramsAnyLen(v) ==
    IF v.t = "Object" THEN MapGet(v.o, OPERATOR) ELSE None

\* Function::get_in_params
get_in_params(v) ==
    IF v.t # "Object" THEN None
    ELSE IF MapLen(v.o) # 1 THEN None
    ELSE MapGet(v.o, OPERATOR)

\* A filter_value that takes for a definition only what holds an array of
\* three elements.
filter_valueWellFormedOnly(v) ==
    LET got == get_in_params(v)
    IN  IF got.some /\ got.v.t = "Array" /\ Len(got.v.a) = 3
        THEN Some(v) ELSE None

\* Function::filter_value
filter_value(v) == IF get_in_params(v).some THEN Some(v) ELSE None

\* A to_parameters that hands on the error of the parameter as it is.
to_parametersBareError(v) ==
    IF v.t # "Array"
    THEN Err(InvalidArgument(v, "defn", Reason("Parameter list must be an array")))
    ELSE LET parse(param) == IdentifierTryFrom(param)
             bad == {i \in 1..Len(v.a) : ~parse(v.a[i]).ok}
         IN  IF bad # {}
             THEN LET i == CHOOSE i \in bad : \A j \in bad : i <= j
                  IN  Err(parse(v.a[i]).err)
             ELSE Ok([i \in 1..Len(v.a) |-> parse(v.a[i]).v])

\* Function::to_parameters
to_parameters(v) ==
    IF v.t # "Array"
    THEN Err(InvalidArgument(v, "defn", Reason("Parameter list must be an array")))
    ELSE LET parse(param) == IdentifierTryFrom(param)
             bad == {i \in 1..Len(v.a) : ~parse(v.a[i]).ok}
         IN  IF bad # {}
             THEN LET i == CHOOSE i \in bad : \A j \in bad : i <= j
                  IN  Err(InvalidArgument(v, "defn",
                            Format("Could not parse parameter {} due to: {}",
                                   <<ValueToString(v.a[i]),
                                     ErrorToString(parse(v.a[i]).err)>>)))
             ELSE Ok([i \in 1..Len(v.a) |-> parse(v.a[i]).v])

\* A from_value that takes an array of three or more elements and does not
\* count the ones after the third.
from_valueAtLeastThree(v) ==
    LET got == get_in_params(v)
    IN  IF ~got.some THEN Ok(None)
        ELSE LET vals == got.v
             IN  IF vals.t # "Array"
                 THEN Err(InvalidArgument(vals, "defn",
                            Reason("Argument to 'defn' must be an array")))
                 ELSE IF Len(vals.a) < 3
                 THEN Err(WrongArgumentCount(Exactly(3), Len(vals.a)))
                 ELSE LET in_name == vals.a[1]
                          in_params == vals.a[2]
                          in_expr == vals.a[3]
                          params == to_parameters(in_params)
                          name == IdentifierTryFrom(in_name)
                      IN  IF ~params.ok THEN params
                          ELSE IF filter_value(in_expr).some
                          THEN Err(InvalidArgument(in_expr, "defn",
                                 Reason("A function's body may not be a expression")))
                          ELSE IF ~name.ok
                          THEN Err(InvalidArgument(in_name, "defn",
                                                   ErrorToString(name.err)))
                          ELSE Ok(Some(FunctionNew(name.v, params.v, in_expr,
                                                   Exactly(Len(params.v)))))

\* Parser for Function: from_value
from_value(v) ==
    LET got == get_in_params(v)
    IN  IF ~got.some THEN Ok(None)
        ELSE LET vals == got.v
             IN  IF vals.t # "Array"
                 THEN Err(InvalidArgument(vals, "defn",
                            Reason("Argument to 'defn' must be an array")))
                 ELSE IF Len(vals.a) # 3
                 THEN Err(WrongArgumentCount(Exactly(3), Len(vals.a)))
                 ELSE LET in_name == vals.a[1]
                          in_params == vals.a[2]
                          in_expr == vals.a[3]
                          params == to_parameters(in_params)
                          name == IdentifierTryFrom(in_name)
                      IN  IF ~params.ok THEN params
                          ELSE IF filter_value(in_expr).some
                          THEN Err(InvalidArgument(in_expr, "defn",
                                 Reason("A function's body may not be a expression")))
                          ELSE IF ~name.ok
                          THEN Err(InvalidArgument(in_name, "defn",
                                                   ErrorToString(name.err)))
                          ELSE Ok(Some(FunctionNew(name.v, params.v, in_expr,
                                                   Exactly(Len(params.v)))))

\* Operator for Function: evaluate, whose body is todo!().  What the call
\* comes to: it panics for every function and every data.
evaluate(func, data) == Panicked("not yet implemented")

\* From<Function> for Value
FunctionIntoValue(func) ==
    LET params == Array([i \in 1..Len(func.params) |->
                            IdentifierIntoValue(func.params[i])])
        expression == func.expression
        values == Array(<<params, expression>>)
    IN  Object(MapInsert(MapNew, OPERATOR, values))

(***************************************************************************)
(* The state machine: inputs are drawn by Init, and each action applies    *)
(* one operation of the library to them and records what it returned.      *)
(***************************************************************************)
OpNames ==
    {"add", "add_swapped", "equal", "not_equal", "lt", "lte", "gt", "gte",
     "evaluate"}

IdentifierVariants == {"func", "op_func"}

NoOutputs == [o \in OpNames |-> NotCalled]

NoIdentOutputs == [i \in IdentifierVariants |-> NotCalled]

\* The variables of the Identifier constructors, when a run does not use them.
IdentIdle == ident = <<>> /\ identOut = NoIdentOutputs

\* The variables of the operators, when a run does not use them.
ItemsIdle == items = <<>> /\ out = NoOutputs

\* The variables of the function parser, when a run does not use them.
FunctionIdle ==
    value = Null /\ parsed = NotCalled /\ firstParse = NotCalled /\ pc = "idle"

(***************************************************************************)
(* The inputs of add.                                                      *)
(***************************************************************************)
\* Every u64.
U64s == 0..U64Max

\* Every negative i64: an i64 that is not negative is kept as a u64.
NegI64s == I64Min..(0 - 1)

\* Every finite f64 that is a whole number.
F64s == {x \in (0 - F64Max)..F64Max : RoundF64(x) = Finite(x)}

IntegerNumbers == {PosInt(x) : x \in U64s} \cup {NegInt(x) : x \in NegI64s}

Numbers == IntegerNumbers \cup {Float(x) : x \in F64s}

\* JSON values that are not numbers.
NonNumbers ==
    {Null, Bool(TRUE), Bool(FALSE), String(<<"f", "o", "o">>), String(<<"1">>),
     Array(<<>>), Array(<<Number(PosInt(1))>>), Object(<<>>),
     Object(<<[k |-> <<"a">>, v |-> Number(PosInt(1))]>>)}

AddValues == {Number(n) : n \in Numbers} \cup NonNumbers

InitAdd ==
    /\ items \in {<<a, b>> : a \in AddValues, b \in AddValues}
    /\ out = NoOutputs
    /\ IdentIdle
    /\ FunctionIdle

\* A call of add on the argument list.
Add ==
    /\ Len(items) = 2
    /\ ~out["add"].called
    /\ out' = [out EXCEPT !["add"] = Returned(add(items))]
    /\ UNCHANGED <<ident, identOut, items, value, parsed, firstParse, pc>>

NextAdd == Add

SpecAdd == InitAdd /\ [][NextAdd]_vars

(***************************************************************************)
(* Claims about add.                                                       *)
(***************************************************************************)
IsInteger(v) == v.t = "Number" /\ v.n.kind \in {"PosInt", "NegInt"}

\* The JSON integer of value x.
IntegerNumber(x) == IF x < 0 THEN NegInt(x) ELSE PosInt(x)

\* C1: add of two integers whose exact sum lies in i64::MIN ..= u64::MAX
\* returns Ok with the integer equal to that sum.
C1_AddKeepsIntegers ==
    (/\ out["add"].called
     /\ IsInteger(items[1]) /\ IsInteger(items[2])
     /\ items[1].n.n + items[2].n.n \in I64Min..U64Max)
    => /\ out["add"].ret.ok
       /\ out["add"].ret.v = Number(IntegerNumber(items[1].n.n + items[2].n.n))

\* C2: when add of two integers falls back to floating point, the result is
\* (a as float) + (b as float), and a negative operand never increases it.
C2_WidenedValue ==
    (/\ out["add"].called
     /\ IsInteger(items[1]) /\ IsInteger(items[2])
     /\ out["add"].ret.ok
     /\ out["add"].ret.v.n.kind = "Float")
    => /\ Finite(out["add"].ret.v.n.n)
            = F64Add(AsF64(items[1].n.n), AsF64(items[2].n.n))
       /\ items[2].n.n < 0 => out["add"].ret.v.n.n <= AsF64(items[1].n.n).v
       /\ items[1].n.n < 0 => out["add"].ret.v.n.n <= AsF64(items[2].n.n).v

\* C4: add with an argument that is not a number returns InvalidArgument for
\* "add", naming the first argument if it is not a number, else the second.
C4_AddRejectsNonNumbers ==
    (/\ out["add"].called
     /\ items[1].t # "Number" \/ items[2].t # "Number")
    => /\ ~out["add"].ret.ok
       /\ out["add"].ret.err.kind = "InvalidArgument"
       /\ out["add"].ret.err.operation = "add"
       /\ out["add"].ret.err.value
            = (IF items[1].t # "Number" THEN items[1] ELSE items[2])

\* add was called with two different non-numbers, and named the first.
C4_Witness ==
    /\ out["add"].called
    /\ items[1].t = "String" /\ items[2].t = "Bool"
    /\ ~out["add"].ret.ok
    /\ out["add"].ret.err.value = items[1]

\* The floating-point sum of two numbers is an infinity.
SumOverflows(a, b) == ~is_finite(F64Add(as_f64(a).v, as_f64(b).v))

\* C5: add of two numbers whose floating-point sum is not finite returns
\* OverflowBinaryOp with "add" and the two operands as written, in order;
\* every other add of two numbers returns Ok with a finite number.
C5_AddNeverNonFinite ==
    (/\ out["add"].called
     /\ items[1].t = "Number" /\ items[2].t = "Number")
    => IF SumOverflows(items[1].n, items[2].n)
       THEN /\ ~out["add"].ret.ok
            /\ out["add"].ret.err
                 = OverflowBinaryOp("add", NumberDisplay(items[1].n),
                                    NumberDisplay(items[2].n))
       ELSE /\ out["add"].ret.ok
            /\ out["add"].ret.v.t = "Number"
            /\ out["add"].ret.v.n.kind = "Float"
                 => out["add"].ret.v.n.n \in F64s
            /\ out["add"].ret.v.n.kind = "PosInt"
                 => out["add"].ret.v.n.n \in U64s
            /\ out["add"].ret.v.n.kind = "NegInt"
                 => out["add"].ret.v.n.n \in NegI64s

\* add overflowed on two different floats.
C5_Witness ==
    /\ out["add"].called
    /\ items[1].t = "Number" /\ items[2].t = "Number"
    /\ items[1].n.kind = "Float" /\ items[2].n.kind = "Float"
    /\ ~out["add"].ret.ok
    /\ out["add"].ret.err.kind = "OverflowBinaryOp"
    /\ out["add"].ret.err.a # out["add"].ret.err.b

(***************************************************************************)
(* The Identifier constructors.                                            *)
(***************************************************************************)
IdentChars == {"a", "e_acute", " ", "\n", "ideographic_space"}

RECURSIVE SeqsUpTo(_, _)
\* The sequences of at most n elements of cs: the strings over a set of
\* characters, the arrays over a set of values.
SeqsUpTo(cs, n) ==
    IF n = 0 THEN {<<>>}
    ELSE LET shorter == SeqsUpTo(cs, n - 1)
         IN  shorter \cup {Append(s, c) : s \in shorter, c \in cs}

InitIdentifier ==
    /\ ident \in SeqsUpTo(IdentChars, MaxStrLen)
    /\ identOut = NoIdentOutputs
    /\ ItemsIdle
    /\ FunctionIdle

\* A call of Identifier::new of src/func.rs.
FuncNew ==
    /\ ~identOut["func"].called
    /\ identOut' = [identOut EXCEPT !["func"] = Returned(FuncIdentifierNew(ident))]
    /\ UNCHANGED <<ident, items, out, value, parsed, firstParse, pc>>

\* A call of Identifier::new of src/op/func.rs.
OpFuncNew ==
    /\ ~identOut["op_func"].called
    /\ identOut' = [identOut EXCEPT !["op_func"] = Returned(IdentifierNew(ident))]
    /\ UNCHANGED <<ident, items, out, value, parsed, firstParse, pc>>

NextIdentifier == FuncNew \/ OpFuncNew

SpecIdentifier == InitIdentifier /\ [][NextIdentifier]_vars

\* The minimum length each Identifier asks for.
MinLength(variant) == IF variant = "func" THEN 2 ELSE 1

NoWhitespace(s) == \A i \in 1..Len(s) : s[i] \notin {" ", "\t", "\n", "ideographic_space"}

\* The number of UTF-8 bytes of s: one per character, and the further bytes
\* of the characters that take two or three.
Utf8Bytes(s) ==
    Len(s) + Cardinality({i \in 1..Len(s) : s[i] = "e_acute"})
           + 2 * Cardinality({i \in 1..Len(s) : s[i] = "ideographic_space"})

\* What Identifier::new returns, given whether the string is long enough.
IdentifierOutcome(ret, s, longEnough) ==
    /\ ret.ok <=> (longEnough /\ NoWhitespace(s))
    /\ ret.ok => ret.v.value = s
    /\ ~ret.ok => ret.err.kind = "InvalidIdentifier" /\ ret.err.value = s

\* C9 as stated: Identifier::new(s) is Ok exactly when s has at least the
\* minimum number of characters, a multi-byte character counting as one, and
\* no whitespace; otherwise it is Err(InvalidIdentifier) carrying s.
C9_ValidByCharacters ==
    \A i \in IdentifierVariants :
        identOut[i].called
        => IdentifierOutcome(identOut[i].ret, ident, Len(ident) >= MinLength(i))

\* C9 as amended: Identifier::new(s) is Ok exactly when s has at least the
\* minimum number of UTF-8 bytes and no whitespace; otherwise it is
\* Err(InvalidIdentifier) carrying s.
C9_ValidByBytes ==
    \A i \in IdentifierVariants :
        identOut[i].called
        => IdentifierOutcome(identOut[i].ret, ident,
                             Utf8Bytes(ident) >= MinLength(i))

\* Both constructors were called on the single two-byte character, and both
\* accepted it.
C9_Witness ==
    /\ ident = <<"e_acute">>
    /\ identOut["func"].called /\ identOut["func"].ret.ok
    /\ identOut["op_func"].called /\ identOut["op_func"].ret.ok

(***************************************************************************)
(* The equality operators.                                                 *)
(***************************************************************************)
One == Number(PosInt(1))

Two == Number(PosInt(2))

Three == Number(PosInt(3))

EqScalars ==
    {Null, Bool(TRUE), Bool(FALSE), Number(PosInt(0)), One, Number(Float(1)),
     Number(NegInt(0 - 1)), String(<<"a">>), String(<<>>)}

\* What the arrays and objects of the first level hold.
EqElements == {Bool(TRUE), One, Two, Three}

Member(k, v) == [k |-> k, v |-> v]

EqMembers == {Member(k, v) : k \in {<<"a">>, <<"b">>}, v \in {One, Two, Bool(FALSE)}}

EqArrays == {Array(a) : a \in SeqsUpTo(EqElements, MaxItems)}

\* Objects from their texts: members in either order, and a key given twice.
EqObjects == {Object(MapOf(ms)) : ms \in SeqsUpTo(EqMembers, MaxItems)}

\* What the arrays and objects of the deeper levels hold.
EqInner ==
    {Array(<<One, Two>>), Array(<<Two, One>>),
     Object(MapOf(<<Member(<<"a">>, One), Member(<<"b">>, Two)>>)),
     Object(MapOf(<<Member(<<"b">>, Two), Member(<<"a">>, One)>>)),
     Object(MapOf(<<Member(<<"a">>, One), Member(<<"b">>, Three)>>)),
     Array(<<One, Two, Object(MapOf(<<Member(<<"c">>, One)>>))>>)}

EqNested ==
    {Array(<<x>>) : x \in EqInner}
    \cup {Object(MapOf(<<Member(<<"a">>, One), Member(<<"b">>, x)>>)) : x \in EqInner}
    \cup {Object(MapOf(<<Member(<<"b">>, x), Member(<<"a">>, One)>>)) : x \in EqInner}
    \cup {Array(<<Object(MapOf(<<Member(<<"b">>, x), Member(<<"a">>, One)>>))>>) :
            x \in EqInner}
    \cup {Array(<<Object(MapOf(<<Member(<<"a">>, One), Member(<<"b">>, x)>>))>>) :
            x \in EqInner}

EqValues == EqScalars \cup EqArrays \cup EqObjects \cup EqNested

InitEquality ==
    /\ items \in {<<a, b>> : a \in EqValues, b \in EqValues}
    /\ out = NoOutputs
    /\ IdentIdle
    /\ FunctionIdle

\* A call of equal on the argument list.
Equal ==
    /\ Len(items) = 2
    /\ ~out["equal"].called
    /\ out' = [out EXCEPT !["equal"] = Returned(equal(items))]
    /\ UNCHANGED <<ident, identOut, items, value, parsed, firstParse, pc>>

\* A call of not_equal on the argument list.
NotEqual ==
    /\ Len(items) = 2
    /\ ~out["not_equal"].called
    /\ out' = [out EXCEPT !["not_equal"] = Returned(not_equal(items))]
    /\ UNCHANGED <<ident, identOut, items, value, parsed, firstParse, pc>>

NextEquality == Equal \/ NotEqual

SpecEquality == InitEquality /\ [][NextEquality]_vars

IsOkBool(ret) == ret.ok /\ ret.v.t = "Bool"

\* C6: equal and not_equal both return Ok with a boolean, and the boolean of
\* not_equal is the negation of the boolean of equal.
C6_Complementarity ==
    /\ out["equal"].called => IsOkBool(out["equal"].ret)
    /\ out["not_equal"].called => IsOkBool(out["not_equal"].ret)
    /\ (out["equal"].called /\ out["not_equal"].called)
       => out["not_equal"].ret.v.b = ~out["equal"].ret.v.b

\* Both were called on two arrays of the same length that differ inside.
C6_Witness ==
    /\ out["equal"].called /\ out["not_equal"].called
    /\ items[1].t = "Array" /\ items[2].t = "Array"
    /\ Len(items[1].a) = 2 /\ Len(items[2].a) = 2
    /\ items[1].a[1] = items[2].a[1]
    /\ out["not_equal"].ret.v.b
    /\ ~out["equal"].ret.v.b

\* The keys of an object.
KeySet(o) == {o[i].k : i \in 1..Len(o)}

\* The value an object holds for a key of it.
ValueAt(o, k) == o[CHOOSE i \in 1..Len(o) : o[i].k = k].v

RECURSIVE DeepEqual(_, _)
\* Deep equality of two values of one JSON type: arrays element by element in
\* order, objects key by key whatever the order of the keys, numbers by
\* representation and value (the integer 1 is not the float 1.0).
DeepEqual(a, b) ==
    CASE a.t = "Array" ->
            /\ Len(a.a) = Len(b.a)
            /\ \A i \in 1..Len(a.a) :
                  a.a[i].t = b.a[i].t /\ DeepEqual(a.a[i], b.a[i])
      [] a.t = "Object" ->
            /\ KeySet(a.o) = KeySet(b.o)
            /\ \A k \in KeySet(a.o) :
                  /\ ValueAt(a.o, k).t = ValueAt(b.o, k).t
                  /\ DeepEqual(ValueAt(a.o, k), ValueAt(b.o, k))
      [] OTHER -> a = b

\* C7: equal is true exactly when the two values have the same JSON type and
\* are deeply equal: arrays in order, objects whatever the insertion order of
\* their keys, at every depth; values of different types are never equal.
C7_StrictStructuralEquality ==
    out["equal"].called
    => /\ IsOkBool(out["equal"].ret)
       /\ out["equal"].ret.v.b
            <=> (items[1].t = items[2].t /\ DeepEqual(items[1], items[2]))

\* equal was called on two objects that hold, under a key, the same members
\* inserted in two different orders, and returned true.
C7_Witness ==
    /\ out["equal"].called
    /\ items[1].t = "Object" /\ items[2].t = "Object"
    /\ Len(items[1].o) = 2 /\ Len(items[2].o) = 2
    /\ items[1].o[1].k = <<"a">> /\ items[2].o[1].k = <<"b">>
    /\ items[1].o[2].v.t = "Object" /\ Len(items[1].o[2].v.o) = 2
    /\ items[2].o[1].v.t = "Object" /\ Len(items[2].o[1].v.o) = 2
    /\ items[1].o[2].v.o[1].k # items[2].o[1].v.o[1].k
    /\ out["equal"].ret.v.b

(***************************************************************************)
(* The ordering operators.                                                 *)
(***************************************************************************)
CompareValues ==
    {Number(PosInt(0)), One, Two, Three, Number(NegInt(0 - 1)), Number(Float(2)),
     Null, Bool(TRUE), Bool(FALSE), String(<<"2">>), String(<<"a">>),
     String(<<"a", "b">>)}

\* lt, lte, gt and gte take 2 or 3 operands.
InitCompare ==
    /\ items \in {<<a, b>> : a \in CompareValues, b \in CompareValues}
                 \cup {<<a, b, c>> : a \in CompareValues, b \in CompareValues,
                                     c \in CompareValues}
    /\ out = NoOutputs
    /\ IdentIdle
    /\ FunctionIdle

\* A call of lt on the argument list.
Lt ==
    /\ Len(items) \in {2, 3}
    /\ ~out["lt"].called
    /\ out' = [out EXCEPT !["lt"] = Returned(lt(items))]
    /\ UNCHANGED <<ident, identOut, items, value, parsed, firstParse, pc>>

\* A call of lte on the argument list.
Lte ==
    /\ Len(items) \in {2, 3}
    /\ ~out["lte"].called
    /\ out' = [out EXCEPT !["lte"] = Returned(lte(items))]
    /\ UNCHANGED <<ident, identOut, items, value, parsed, firstParse, pc>>

\* A call of gt on the argument list.
Gt ==
    /\ Len(items) \in {2, 3}
    /\ ~out["gt"].called
    /\ out' = [out EXCEPT !["gt"] = Returned(gt(items))]
    /\ UNCHANGED <<ident, identOut, items, value, parsed, firstParse, pc>>

\* A call of gte on the argument list.
Gte ==
    /\ Len(items) \in {2, 3}
    /\ ~out["gte"].called
    /\ out' = [out EXCEPT !["gte"] = Returned(gte(items))]
    /\ UNCHANGED <<ident, identOut, items, value, parsed, firstParse, pc>>

NextCompare == Lt \/ Lte \/ Gt \/ Gte

SpecCompare == InitCompare /\ [][NextCompare]_vars

\* The chained comparison of items with abstract_lt.
ChainedLt ==
    IF Len(items) = 2 THEN abstract_lt(items[1], items[2])
    ELSE abstract_lt(items[1], items[2]) /\ abstract_lt(items[2], items[3])

\* The chained comparison of items with abstract_lte.
ChainedLte ==
    IF Len(items) = 2 THEN abstract_lte(items[1], items[2])
    ELSE abstract_lte(items[1], items[2]) /\ abstract_lte(items[2], items[3])

\* The chained comparison of items with abstract_gt.
ChainedGt ==
    IF Len(items) = 2 THEN abstract_gt(items[1], items[2])
    ELSE abstract_gt(items[1], items[2]) /\ abstract_gt(items[2], items[3])

\* The chained comparison of items with abstract_gte.
ChainedGte ==
    IF Len(items) = 2 THEN abstract_gte(items[1], items[2])
    ELSE abstract_gte(items[1], items[2]) /\ abstract_gte(items[2], items[3])

AllNumbers == \A i \in 1..Len(items) : items[i].t = "Number"

\* The numbers of items increase strictly from each operand to the next.
Increasing == \A i \in 1..(Len(items) - 1) : items[i].n.n < items[i + 1].n.n

\* C8: with 2 operands each of lt, lte, gt, gte returns Ok(Bool(cmp(x0, x1))),
\* with 3 operands Ok(Bool(cmp(x0, x1) AND cmp(x1, x2))), never an error; on
\* numbers, lt is true exactly when they increase, as in lt([1,2,3]) = true
\* and lt([1,3,2]) = false.
C8_ChainedComparison ==
    /\ out["lt"].called => out["lt"].ret = Ok(Bool(ChainedLt))
    /\ out["lte"].called => out["lte"].ret = Ok(Bool(ChainedLte))
    /\ out["gt"].called => out["gt"].ret = Ok(Bool(ChainedGt))
    /\ out["gte"].called => out["gte"].ret = Ok(Bool(ChainedGte))
    /\ (out["lt"].called /\ AllNumbers) => out["lt"].ret = Ok(Bool(Increasing))
    /\ (out["lt"].called /\ items = <<One, Two, Three>>) => out["lt"].ret.v.b
    /\ (out["lt"].called /\ items = <<One, Three, Two>>) => ~out["lt"].ret.v.b

\* lt and gt were called on [1, 3, 2]: each has one comparison true and the
\* other false, and returned false.
C8_Witness ==
    /\ items = <<One, Three, Two>>
    /\ out["lt"].called /\ out["lt"].ret = Ok(Bool(FALSE))
    /\ out["gt"].called /\ out["gt"].ret = Ok(Bool(FALSE))

(***************************************************************************)
(* The parsing of function definitions, and the round trip through JSON.   *)
(***************************************************************************)
Str(s) == String(s)

Foo == String(<<"f", "o", "o">>)

Twelve == Number(PosInt(12))

\* {"defn": x}
Defn(x) == Object(MapOf(<<Member(OPERATOR, x)>>))

\* {"+": [1, 2]}
AddTwo == Object(MapOf(<<Member(<<"+">>, Array(<<One, Two>>))>>))

\* The names a definition is given: valid, empty, with whitespace, not a string.
NameInputs ==
    {Foo, String(<<"a">>), String(<<>>), String(<<"a", " ", "b">>), Twelve, Null}

\* What a parameter list is made of.
ParamInputs ==
    {String(<<"a">>), String(<<"b">>), String(<<>>), String(<<"\n">>), Twelve}

\* The parameter lists: arrays, and values that are not arrays.
ParamsInputs ==
    {Array(ps) : ps \in SeqsUpTo(ParamInputs, MaxParams)}
    \cup {String(<<"a">>), Null, Object(MapNew)}

\* The bodies: plain values, an operator, definitions well and ill formed,
\* and objects of two keys of which one is "defn".
ExprInputs ==
    {Twelve, Foo, AddTwo, Array(<<Foo, Array(<<>>), Twelve>>),
     Defn(Array(<<String(<<"a">>), Array(<<>>), Twelve>>)), Defn(Foo),
     Object(MapOf(<<Member(OPERATOR, Array(<<Foo, Array(<<>>), Twelve>>)),
                    Member(<<"f", "o", "o">>, Three)>>)),
     Object(MapNew)}

\* What the key "defn" holds.
DefnArguments ==
    {Array(<<n, ps, e>>) : n \in NameInputs, ps \in ParamsInputs, e \in ExprInputs}
    \cup {Foo, Null, Twelve, Object(MapNew), Array(<<>>), Array(<<Foo>>),
          Array(<<One, Two>>), Array(<<Foo, Array(<<>>)>>),
          Array(<<Foo, Array(<<>>), Twelve, Twelve>>),
          Array(<<Twelve, Foo, Defn(Foo), Twelve>>),
          Array(<<String(<<>>), Null>>)}

\* Values that are not definitions: not objects, objects of no key, of one
\* other key, and of two keys of which one is "defn", first or last.
NotFunctions ==
    {Null, Bool(TRUE), Twelve, Foo, String(OPERATOR), Array(<<>>),
     Array(<<String(OPERATOR), Array(<<Foo, Array(<<>>), Twelve>>)>>),
     Object(MapNew), AddTwo, Object(MapOf(<<Member(<<"f", "o", "o">>, Three)>>))}
    \cup {Object(MapOf(<<Member(OPERATOR, x), Member(<<"f", "o", "o">>, Three)>>)) :
            x \in {Array(<<One, Two>>), Array(<<Foo, Array(<<>>), Twelve>>), Foo}}
    \cup {Object(MapOf(<<Member(<<"a">>, Three), Member(OPERATOR, x)>>)) :
            x \in {Array(<<One, Two>>), Array(<<Foo, Array(<<>>), Twelve>>), Foo}}

FunctionInputs == {Defn(x) : x \in DefnArguments} \cup NotFunctions

InitFunction ==
    /\ value \in FunctionInputs
    /\ parsed = NotCalled
    /\ firstParse = NotCalled
    /\ pc = "start"
    /\ IdentIdle
    /\ ItemsIdle

\* A call of Function::from_value on the value: the first parse, or the
\* parse of what the function was turned into.
FromValue ==
    /\ pc \in {"start", "serialized"}
    /\ parsed' = Returned(from_value(value))
    /\ firstParse' = IF pc = "start" THEN parsed' ELSE firstParse
    /\ pc' = IF pc = "start" THEN "parsed" ELSE "reparsed"
    /\ UNCHANGED <<ident, identOut, items, out, value>>

\* From<Function> for Value, on the Function that was parsed.
IntoValue ==
    /\ pc = "parsed"
    /\ parsed.ret.ok
    /\ parsed.ret.v.some
    /\ value' = FunctionIntoValue(parsed.ret.v.v)
    /\ parsed' = NotCalled
    /\ pc' = "serialized"
    /\ UNCHANGED <<ident, identOut, items, out, firstParse>>

\* The data contexts a Function is evaluated against.
DataInputs ==
    {Null, Twelve, Object(MapNew),
     Object(MapOf(<<Member(<<"a">>, One), Member(<<"b">>, Two)>>))}

\* A call of evaluate on the Function that was parsed, which is borrowed.
Evaluate ==
    /\ pc = "parsed"
    /\ parsed.ret.ok
    /\ parsed.ret.v.some
    /\ \E data \in DataInputs :
          /\ items' = <<data>>
          /\ out' = [out EXCEPT !["evaluate"] = evaluate(parsed.ret.v.v, data)]
    /\ pc' = IF "ret" \in DOMAIN out'["evaluate"] THEN "evaluated" ELSE "panicked"
    /\ UNCHANGED <<ident, identOut, value, parsed, firstParse>>

NextFunction == FromValue \/ IntoValue \/ Evaluate

SpecFunction == InitFunction /\ [][NextFunction]_vars

\* C3: a parsed Function turned into JSON and parsed again is Ok(Some(g)), g
\* with the same name, the same parameters in the same order and the same
\* expression.
C3_RoundTrip ==
    pc = "reparsed"
    => /\ parsed.ret.ok
       /\ parsed.ret.v.some
       /\ parsed.ret.v.v.name = firstParse.ret.v.v.name
       /\ parsed.ret.v.v.params = firstParse.ret.v.v.params
       /\ parsed.ret.v.v.expression = firstParse.ret.v.v.expression

\* An object of exactly one key, "defn".
IsDefnObject(v) == v.t = "Object" /\ Len(v.o) = 1 /\ v.o[1].k = <<"d", "e", "f", "n">>

\* C10: from_value of a value that is not an object of exactly one key "defn"
\* returns Ok(None).
C10_NotAFunction ==
    (parsed.called /\ ~IsDefnObject(value))
    => parsed.ret.ok /\ ~parsed.ret.v.some

\* from_value was called on an object of two keys, "defn" among them with a
\* well-formed definition, and returned Ok(None).
C10_Witness ==
    /\ parsed.called
    /\ value.t = "Object" /\ Len(value.o) = 2
    /\ \E i \in 1..2 : value.o[i].k = <<"d", "e", "f", "n">> /\ value.o[i].v.t = "Array"
                       /\ Len(value.o[i].v.a) = 3
    /\ parsed.ret.ok /\ ~parsed.ret.v.some

\* What the single key "defn" of the value holds.
DefnArgument(v) == v.o[1].v

\* C11: from_value of {"defn": x} returns Err(InvalidArgument) when x is not
\* an array, and Err(WrongArgumentCount) with expected Exactly(3) and actual n
\* when x is an array of n elements, n not 3, whatever else is wrong in x.
C11_DefnArgumentShape ==
    (parsed.called /\ IsDefnObject(value))
    => LET x == DefnArgument(value)
       IN  /\ x.t # "Array"
              => ~parsed.ret.ok /\ parsed.ret.err.kind = "InvalidArgument"
           /\ (x.t = "Array" /\ Len(x.a) # 3)
              => /\ ~parsed.ret.ok
                 /\ parsed.ret.err = WrongArgumentCount(Exactly(3), Len(x.a))

\* from_value was called on {"defn": x}, x an array of four elements of which
\* the first is not a name, the second not a parameter list and the third a
\* definition, and returned WrongArgumentCount.
C11_Witness ==
    /\ parsed.called
    /\ IsDefnObject(value)
    /\ DefnArgument(value).t = "Array"
    /\ Len(DefnArgument(value).a) = 4
    /\ DefnArgument(value).a[1].t # "String"
    /\ DefnArgument(value).a[2].t # "Array"
    /\ IsDefnObject(DefnArgument(value).a[3])
    /\ ~parsed.ret.ok
    /\ parsed.ret.err.kind = "WrongArgumentCount"

\* {"defn": [name, params, expr]}: a definition of three elements.
IsDefnOfThree(v) ==
    /\ IsDefnObject(v)
    /\ DefnArgument(v).t = "Array"
    /\ Len(DefnArgument(v).a) = 3

\* The array holds the same string at two different positions.
HasDuplicateString(ps) ==
    /\ ps.t = "Array"
    /\ \E i, j \in 1..Len(ps.a) :
          i # j /\ ps.a[i].t = "String" /\ ps.a[j].t = "String"
                /\ ps.a[i].s = ps.a[j].s

\* C12: from_value of a definition whose parameter list holds the same
\* identifier string at two positions returns Err(InvalidArgument), and the
\* parameters of every parsed Function are pairwise distinct.
C12_UniqueParameters ==
    parsed.called
    => /\ (IsDefnOfThree(value) /\ HasDuplicateString(DefnArgument(value).a[2]))
          => ~parsed.ret.ok /\ parsed.ret.err.kind = "InvalidArgument"
       /\ (parsed.ret.ok /\ parsed.ret.v.some)
          => \A i, j \in 1..Len(parsed.ret.v.v.params) :
                i # j => parsed.ret.v.v.params[i] # parsed.ret.v.v.params[j]

\* The value is a string that Identifier::new of src/op/func.rs takes.
IsIdentifierString(x) ==
    /\ x.t = "String"
    /\ Utf8Bytes(x.s) >= MinLength("op_func")
    /\ NoWhitespace(x.s)

\* The value is an array of strings that are identifiers.
IsParameterList(ps) ==
    ps.t = "Array" /\ \A i \in 1..Len(ps.a) : IsIdentifierString(ps.a[i])

\* C13: from_value of a definition of three elements whose name, or whose
\* parameter list, or one of whose parameters is not valid returns
\* Err(InvalidArgument) of operation "defn"; from_value returns no error
\* other than InvalidArgument and WrongArgumentCount, never InvalidIdentifier.
C13_IdentifierErrorsWrapped ==
    parsed.called
    => /\ (/\ IsDefnOfThree(value)
           /\ \/ ~IsIdentifierString(DefnArgument(value).a[1])
              \/ ~IsParameterList(DefnArgument(value).a[2]))
          => /\ ~parsed.ret.ok
             /\ parsed.ret.err.kind = "InvalidArgument"
             /\ parsed.ret.err.operation = "defn"
       /\ ~parsed.ret.ok
          => parsed.ret.err.kind \in {"InvalidArgument", "WrongArgumentCount"}

\* from_value was called on a definition whose second parameter has
\* whitespace in it, name and body being valid, and returned the
\* InvalidArgument of "defn" for the parameter list.
C13_Witness ==
    /\ parsed.called
    /\ IsDefnOfThree(value)
    /\ IsIdentifierString(DefnArgument(value).a[1])
    /\ DefnArgument(value).a[2].t = "Array"
    /\ Len(DefnArgument(value).a[2].a) = 2
    /\ IsIdentifierString(DefnArgument(value).a[2].a[1])
    /\ DefnArgument(value).a[2].a[2] = String(<<"\n">>)
    /\ ~IsDefnObject(DefnArgument(value).a[3])
    /\ ~parsed.ret.ok
    /\ parsed.ret.err.kind = "InvalidArgument"
    /\ parsed.ret.err.operation = "defn"
    /\ parsed.ret.err.value = DefnArgument(value).a[2]

\* C14: from_value checks the shape, then the name, then the parameter list,
\* then the body: of a definition of three elements with an invalid name and
\* an invalid parameter list or body, the InvalidArgument returned is the
\* name's; with a valid name, an invalid parameter list and a defn-shaped
\* body, it is the parameter list's.
C14_ValidationOrder ==
    (parsed.called /\ IsDefnOfThree(value))
    => LET in_name == DefnArgument(value).a[1]
           in_params == DefnArgument(value).a[2]
           in_expr == DefnArgument(value).a[3]
       IN  /\ (/\ ~IsIdentifierString(in_name)
               /\ ~IsParameterList(in_params) \/ IsDefnObject(in_expr))
              => /\ ~parsed.ret.ok
                 /\ parsed.ret.err.kind = "InvalidArgument"
                 /\ parsed.ret.err.value = in_name
           /\ (/\ IsIdentifierString(in_name)
               /\ ~IsParameterList(in_params)
               /\ IsDefnObject(in_expr))
              => /\ ~parsed.ret.ok
                 /\ parsed.ret.err.kind = "InvalidArgument"
                 /\ parsed.ret.err.value = in_params

\* C15: from_value of a definition with a valid name and valid parameters
\* whose body is an object of the single key "defn", whatever it holds,
\* returns Err(InvalidArgument); the expression of a parsed Function is never
\* such an object.
C15_NoFunctionReturnsFunction ==
    parsed.called
    => /\ (/\ IsDefnOfThree(value)
           /\ IsIdentifierString(DefnArgument(value).a[1])
           /\ IsParameterList(DefnArgument(value).a[2])
           /\ IsDefnObject(DefnArgument(value).a[3]))
          => ~parsed.ret.ok /\ parsed.ret.err.kind = "InvalidArgument"
       /\ (parsed.ret.ok /\ parsed.ret.v.some)
          => ~IsDefnObject(parsed.ret.v.v.expression)

\* from_value was called on a definition with a valid name and one parameter
\* whose body is {"defn": "foo"}, which is no well-formed definition, and
\* returned the InvalidArgument for the body.
C15_Witness ==
    /\ parsed.called
    /\ IsDefnOfThree(value)
    /\ IsIdentifierString(DefnArgument(value).a[1])
    /\ IsParameterList(DefnArgument(value).a[2])
    /\ Len(DefnArgument(value).a[2].a) = 1
    /\ DefnArgument(value).a[3] = Defn(Foo)
    /\ ~parsed.ret.ok
    /\ parsed.ret.err.kind = "InvalidArgument"
    /\ parsed.ret.err.value = DefnArgument(value).a[3]

\* The Identifier made of a string value.
IdentifierOf(x) == [value |-> x.s]

\* C16: from_value of a definition with a valid name, an array of valid
\* parameters and a body that is not defn-shaped returns Ok(Some(f)), f with
\* that name, those parameters in their order, the body unchanged and the
\* arity Exactly(k), k the number of parameters, zero included.
C16_SuccessfulParse ==
    (/\ parsed.called
     /\ IsDefnOfThree(value)
     /\ IsIdentifierString(DefnArgument(value).a[1])
     /\ IsParameterList(DefnArgument(value).a[2])
     /\ ~IsDefnObject(DefnArgument(value).a[3]))
    => LET in_name == DefnArgument(value).a[1]
           in_params == DefnArgument(value).a[2].a
           in_expr == DefnArgument(value).a[3]
       IN  /\ parsed.ret.ok
           /\ parsed.ret.v.some
           /\ parsed.ret.v.v.name = IdentifierOf(in_name)
           /\ Len(parsed.ret.v.v.params) = Len(in_params)
           /\ \A i \in 1..Len(in_params) :
                 parsed.ret.v.v.params[i] = IdentifierOf(in_params[i])
           /\ parsed.ret.v.v.expression = in_expr
           /\ param_info(parsed.ret.v.v) = Exactly(Len(in_params))

\* from_value was called on a definition of two different parameters and
\* returned a Function of arity Exactly(2).
C16_Witness ==
    /\ parsed.called
    /\ IsDefnOfThree(value)
    /\ IsParameterList(DefnArgument(value).a[2])
    /\ Len(DefnArgument(value).a[2].a) = 2
    /\ DefnArgument(value).a[2].a[1] # DefnArgument(value).a[2].a[2]
    /\ parsed.ret.ok
    /\ parsed.ret.v.some
    /\ param_info(parsed.ret.v.v) = Exactly(2)

\* C17: evaluate of a parsed Function, on any data, completes: it returns a
\* JSON value or an Error, and does not abort.
C17_EvaluateCompletes ==
    out["evaluate"].called
    => /\ "ret" \in DOMAIN out["evaluate"]
       /\ out["evaluate"].ret.ok => out["evaluate"].ret.v.t \in
             {"Null", "Bool", "Number", "String", "Array", "Object"}
       /\ ~out["evaluate"].ret.ok => "kind" \in DOMAIN out["evaluate"].ret.err

(***************************************************************************)
(* add on a pair of numbers and on the pair swapped.                       *)
(***************************************************************************)
InitCommute ==
    /\ items \in {<<Number(a), Number(b)>> : a \in Numbers, b \in Numbers}
    /\ out = NoOutputs
    /\ IdentIdle
    /\ FunctionIdle

\* A call of add on the argument list with its two elements swapped.
AddSwapped ==
    /\ Len(items) = 2
    /\ out["add"].called
    /\ ~out["add_swapped"].called
    /\ out' = [out EXCEPT !["add_swapped"] = Returned(add(<<items[2], items[1]>>))]
    /\ UNCHANGED <<ident, identOut, items, value, parsed, firstParse, pc>>

NextCommute == Add \/ AddSwapped

SpecCommute == InitCommute /\ [][NextCommute]_vars

\* C18: add([a, b]) and add([b, a]) of two numbers both return Ok with the
\* same number, of the same representation, or both return an error.
C18_AddCommutes ==
    (out["add"].called /\ out["add_swapped"].called)
    => \/ /\ out["add"].ret.ok
          /\ out["add_swapped"].ret.ok
          /\ out["add"].ret.v = out["add_swapped"].ret.v
       \/ /\ ~out["add"].ret.ok
          /\ ~out["add_swapped"].ret.ok

=============================================================================
